---- MODULE Spec2Model ----
(***************************************************************************)
(* A model of src/src/js/reknit.js: the reknit job driver, reknitFile, the  *)
(* DOM rewriting done by hideLeafletWidgets / figuresToMove /              *)
(* movePlotlyWidgets / transferNodeContent, and integratePaneHandler.      *)
(*                                                                         *)
(* A source document is a tree of elements below the .main-container       *)
(* element.  Elements are numbered 1..n in document order (pre-order), so  *)
(* querySelectorAll returns matching elements in ascending number.         *)
(***************************************************************************)
EXTENDS Integers, Sequences, FiniteSets, TLC

(***************************** bounds ***********************************)
MaxNodes == 5        \* elements of a source document in SpecFile
JobNodes == 2        \* elements of a source document in SpecJob
RunNodes == 1        \* elements of a source document in SpecRun
MaxJobs == 2         \* entries of config.reknitJobs
MaxCopyJobs == 1     \* entries of config.copyJobs
MaxTransforms == 2   \* entries of options.transforms
MaxVal == 2          \* distinct field values of handlers and side-data files

(************************* element references **************************)
Container == 0       \* the .main-container element
Null == -1           \* JavaScript null
TplSection == -2     \* a .section.level2 of the template enclosing .mxcw-data
PaneBase == 100      \* the widget pane created for sections[j] is PaneBase + j

Pane(j) == PaneBase + j
IsPane(x) == x >= PaneBase

(***************************** selectors ********************************)
Kinds == {"section", "leaflet", "plotly", "datapane", "figure", "plotlydatapane"}

IsSection(k) == k = "section"                          \* .section.level2
IsLeaflet(k) == k = "leaflet"                          \* .html-widget.leaflet
IsPlotly(k) == k \in {"plotly", "plotlydatapane"}      \* .html-widget.plotly
IsDataPane(k) == k \in {"datapane", "plotlydatapane"}  \* .data-pane
IsFigure(k) == k = "figure"                            \* .figure

(***************************** documents ********************************)
RECURSIVE AncestorsOrSelf(_, _)
AncestorsOrSelf(n, par) ==
    IF n <= 0 \/ IsPane(n) THEN {n} ELSE {n} \cup AncestorsOrSelf(par[n], par)

\* parent maps of n elements numbered in document order
ParentMaps(n) ==
    { p \in [1..n -> 0..n] :
        \A m \in 1..n :
            /\ p[m] < m
            /\ (m > 1 => p[m] \in AncestorsOrSelf(m - 1, p) \cup {Container}) }

Docs(n) == { [kind |-> k, parent |-> p] : k \in [1..n -> Kinds], p \in ParentMaps(n) }

\* A template: which anchors it has, and whether .mxcw-data lies in a section
AllTemplates ==
    { t \in [data : BOOLEAN, content : BOOLEAN, head : BOOLEAN, h1 : BOOLEAN,
             title : BOOLEAN, dataInSection : BOOLEAN] : t.dataInSection => t.data }

\* the templates of SpecFile: every anchor but .mxcw-data is present
FileTemplates == { t \in AllTemplates : t.content /\ t.head /\ t.h1 /\ t.title }

\* the templates of SpecRun: .mxcw-data lies in no section of the template
RunTemplates == { t \in AllTemplates : ~t.dataInSection }

NoTemplate ==
    [data |-> FALSE, content |-> FALSE, head |-> FALSE, h1 |-> FALSE,
     title |-> FALSE, dataInSection |-> FALSE]

(***************************** DOM queries ******************************)
\* el.closest(".section.level2"): the element itself or its nearest ancestor
RECURSIVE ClosestSection(_, _, _, _)
ClosestSection(n, par, knd, tp) ==
    IF n = Container \/ n = Null THEN Null
    ELSE IF IsPane(n) THEN (IF tp.dataInSection THEN TplSection ELSE Null)
    ELSE IF IsSection(knd[n]) THEN n
    ELSE ClosestSection(par[n], par, knd, tp)

\* el.closest(".figure")
RECURSIVE ClosestFigure(_, _, _)
ClosestFigure(n, par, knd) ==
    IF n = Container \/ n = Null \/ IsPane(n) THEN Null
    ELSE IF IsFigure(knd[n]) THEN n
    ELSE ClosestFigure(par[n], par, knd)

\* the elements 1..n in document order, as a sequence
DocOrder(n) == [m \in 1..n |-> m]

\* Array.prototype.indexOf: 0-based position of the first occurrence, or -1
IndexOf(s, x) ==
    IF \E j \in 1..Len(s) : s[j] = x
    THEN (CHOOSE j \in 1..Len(s) : s[j] = x /\ \A h \in 1..(j - 1) : s[h] # x) - 1
    ELSE -1

\* "" + index: the decimal string of a non-negative integer
Digits == <<"0", "1", "2", "3", "4", "5", "6", "7", "8", "9">>
RECURSIVE ToDecimal(_)
ToDecimal(v) ==
    IF v < 10 THEN Digits[v + 1] ELSE ToDecimal(v \div 10) \o Digits[(v % 10) + 1]

VARIABLES
    \* ---- the run (reknit) ----
    numJobs,        \* Len(config.reknitJobs)
    numCopyJobs,    \* Len(config.copyJobs)
    jobStatus,      \* per reknit job: "pending", "running", "written", "failed"
    attempts,       \* per reknit job: how often reknitFile was called for it
    outputs,        \* the reknit jobs whose outfile has been written
    copied,         \* number of copy jobs executed
    runStatus,      \* "running", "copying", "resolved", "rejected"
    \* ---- the job in progress (reknitFile) ----
    job,            \* its index in config.reknitJobs
    options,        \* [transforms, paneHandlers]
    pc,             \* the statement reknitFile has reached
    failedAt,       \* the statement that threw, or "none"
    container,      \* document.querySelector(".main-container")
    kind,           \* element -> its classes
    srcParent,      \* element -> parent, as parsed
    parent,         \* element -> current parent (element, Container or a pane)
    styled,         \* elements carrying a style attribute
    sectionIndex,   \* element -> its data-section-index attribute, where set
    sections,       \* result of hideLeafletWidgets
    tpl,            \* the parsed template
    dataDivs,       \* the widget panes created, in order of creation
    paneKids,       \* per widget pane: its children, first child first
    toMoves,        \* [...plotlys, ...toDatas]
    idx,            \* position of the forEach over toMoves
    ignored,        \* the positions logged as "Ignoring widget at index"
    moveCount,      \* element -> how often it was re-parented
    transformCalls, \* the argument lists the transforms were invoked with
    transformState, \* per transform: "pending", "running", "done", "threw"
    inContent,      \* the container has been appended to .mxcw-content
    scriptInHead,   \* the pane handler script has been appended to head
    serialized,     \* the document serialized by the last writeFile
    \* ---- integratePaneHandler ----
    paneHandler, plotData, integrated, paneLog

runVars == <<numJobs, numCopyJobs, jobStatus, attempts, outputs, copied, runStatus>>
domVars == <<container, kind, srcParent, parent, styled, sectionIndex, sections,
             dataDivs, paneKids, toMoves, idx, ignored, moveCount>>
fileVars == <<job, options, pc, failedAt, tpl, transformCalls, transformState,
              inContent, scriptInHead, serialized>>
paneVars == <<paneHandler, plotData, integrated, paneLog>>
vars == <<runVars, domVars, fileVars, paneVars>>

(***************************** objects **********************************)
Keys == {"palette", "taxa", "mapTitle", "type"}
Objects == UNION { [D -> 1..MaxVal] : D \in SUBSET Keys }
EmptyObject == [k \in {} |-> 0]
Undefined == [defined |-> FALSE, fields |-> EmptyObject]
Defined(o) == [defined |-> TRUE, fields |-> o]

SourceDocument == "document"   \* the document parsed from infile
TemplateDocument == "template" \* the document parsed from options.template
NoDocument == "none"

OptionSets == [transforms : 0..MaxTransforms, paneHandlers : BOOLEAN]
NoOptions == [transforms |-> 0, paneHandlers |-> FALSE]

\* the state of a job about to run: nothing parsed yet
FreshJob ==
    /\ pc' = "start"
    /\ failedAt' = "none"
    /\ container' = Null
    /\ kind' = << >>
    /\ srcParent' = << >>
    /\ parent' = << >>
    /\ styled' = {}
    /\ sectionIndex' = << >>
    /\ sections' = << >>
    /\ tpl' = NoTemplate
    /\ dataDivs' = << >>
    /\ paneKids' = << >>
    /\ toMoves' = << >>
    /\ idx' = 0
    /\ ignored' = {}
    /\ moveCount' = << >>
    /\ transformCalls' = << >>
    /\ inContent' = FALSE
    /\ scriptInHead' = FALSE

InitJobLocal ==
    /\ failedAt = "none"
    /\ container = Null
    /\ kind = << >>
    /\ srcParent = << >>
    /\ parent = << >>
    /\ styled = {}
    /\ sectionIndex = << >>
    /\ sections = << >>
    /\ tpl = NoTemplate
    /\ dataDivs = << >>
    /\ paneKids = << >>
    /\ toMoves = << >>
    /\ idx = 0
    /\ ignored = {}
    /\ moveCount = << >>
    /\ transformCalls = << >>
    /\ transformState = << >>
    /\ inContent = FALSE
    /\ scriptInHead = FALSE
    /\ serialized = NoDocument

InitPaneIdle ==
    /\ paneHandler = EmptyObject
    /\ plotData = Undefined
    /\ integrated = EmptyObject
    /\ paneLog = FALSE

(************************** failure of a job ****************************)
\* A statement of reknitFile throws: the promise of reknitFile is rejected
Fail(where) ==
    /\ pc' = "failed"
    /\ failedAt' = where
    /\ jobStatus' = [jobStatus EXCEPT ![job] = "failed"]
    /\ UNCHANGED <<numJobs, numCopyJobs, attempts, outputs, copied, runStatus>>

(***************************** reknitFile *******************************)
\* const document = maxwell.parseDocument(infile);
\* const container = document.querySelector(".main-container");
ParseDocument(n) ==
    /\ pc = "start"
    /\ \/ \E d \in Docs(n) :
            /\ container' = Container
            /\ kind' = d.kind
            /\ srcParent' = d.parent
            /\ parent' = d.parent
            /\ styled' = { m \in 1..n : IsLeaflet(d.kind[m]) }
            /\ moveCount' = [m \in 1..n |-> 0]
       \/ /\ container' = Null      \* the document has no .main-container
          /\ UNCHANGED <<kind, srcParent, parent, styled, moveCount>>
    /\ pc' = "parsed"
    /\ UNCHANGED <<runVars, paneVars, job, options, failedAt, tpl, transformCalls,
                   transformState, inContent, scriptInHead, serialized,
                   sectionIndex, sections, dataDivs, paneKids, toMoves, idx, ignored>>

\* readFileSync throws: infile does not exist
ParseDocumentThrows ==
    /\ pc = "start"
    /\ Fail("parseDocument")
    /\ UNCHANGED <<domVars, paneVars, job, options, tpl, transformCalls,
                   transformState, inContent, scriptInHead, serialized>>

\* container.querySelectorAll(".html-widget.leaflet"), in document order
LeafletWidgets == SelectSeq(DocOrder(Len(kind)), LAMBDA m : IsLeaflet(kind[m]))

\* widgets.map(widget => widget.closest(".section.level2"))
SectionsOf(widgets) ==
    [j \in 1..Len(widgets) |-> ClosestSection(widgets[j], parent, kind, tpl)]

HideLeafletWidgets ==
    /\ pc = "parsed"
    /\ IF container = Null
       THEN /\ Fail("hideLeafletWidgets")
            /\ UNCHANGED <<styled, sections>>
       ELSE /\ styled' = styled \ { LeafletWidgets[j] : j \in 1..Len(LeafletWidgets) }
            /\ sections' = SectionsOf(LeafletWidgets)
            /\ pc' = "hidden"
            /\ UNCHANGED <<runVars, failedAt>>
    /\ UNCHANGED <<paneVars, job, options, tpl, transformCalls, transformState,
                   inContent, scriptInHead, serialized, container, kind, srcParent,
                   parent, sectionIndex, dataDivs, paneKids, toMoves, idx, ignored,
                   moveCount>>

\* const template = maxwell.parseDocument(options.template);
ParseTemplate(T) ==
    /\ pc = "hidden"
    /\ \E t \in T : tpl' = t
    /\ pc' = "tplParsed"
    /\ UNCHANGED <<runVars, domVars, paneVars, job, options, failedAt, transformCalls,
                   transformState, inContent, scriptInHead, serialized>>

ParseTemplateThrows ==
    /\ pc = "hidden"
    /\ Fail("parseTemplate")
    /\ UNCHANGED <<domVars, paneVars, job, options, tpl, transformCalls,
                   transformState, inContent, scriptInHead, serialized>>

\* container.querySelectorAll(".html-widget.plotly")
Plotlys == SelectSeq(DocOrder(Len(kind)), LAMBDA m : IsPlotly(kind[m]))

\* maxwell.figuresToMove(container)
FiguresToMove ==
    LET dataPanes == SelectSeq(DocOrder(Len(kind)), LAMBDA m : IsDataPane(kind[m]))
    IN  [j \in 1..Len(dataPanes) |->
            LET figure == ClosestFigure(dataPanes[j], parent, kind)
            IN  IF figure # Null THEN figure ELSE dataPanes[j]]

\* sections.map(() => { createElement("div"); ...; data.appendChild(div); })
CreateDataDivs ==
    /\ dataDivs' = [j \in 1..Len(sections) |-> Pane(j - 1)]
    /\ paneKids' = [j \in 1..Len(sections) |-> << >>]

MovePlotlyWidgetsBegin_LateCheck ==
    /\ pc = "tplParsed"
    /\ CreateDataDivs
    /\ IF ~tpl.data
       THEN /\ Fail("movePlotlyWidgets")
            /\ UNCHANGED toMoves
       ELSE /\ toMoves' = Plotlys \o FiguresToMove
            /\ pc' = IF Len(Plotlys \o FiguresToMove) = 0 THEN "moved" ELSE "moving"
            /\ UNCHANGED <<runVars, failedAt>>
    /\ UNCHANGED <<paneVars, job, options, tpl, transformCalls, transformState,
                   inContent, scriptInHead, serialized, container, kind, srcParent,
                   parent, styled, sectionIndex, sections, idx, ignored, moveCount>>

\* maxwell.movePlotlyWidgets up to the forEach over toMoves
MovePlotlyWidgetsBegin ==
    /\ pc = "tplParsed"
    /\ IF ~tpl.data
       THEN /\ Fail("movePlotlyWidgets")
            /\ UNCHANGED <<dataDivs, paneKids, toMoves>>
       ELSE /\ CreateDataDivs
            /\ toMoves' = Plotlys \o FiguresToMove
            /\ pc' = IF Len(Plotlys \o FiguresToMove) = 0 THEN "moved" ELSE "moving"
            /\ UNCHANGED <<runVars, failedAt>>
    /\ UNCHANGED <<paneVars, job, options, tpl, transformCalls, transformState,
                   inContent, scriptInHead, serialized, container, kind, srcParent,
                   parent, styled, sectionIndex, sections, idx, ignored, moveCount>>

\* node.prepend(el): el leaves its old parent and becomes the first child
Prepend(kids, j, el) ==
    [h \in 1..Len(kids) |->
        LET rest == SelectSeq(kids[h], LAMBDA c : c # el)
        IN  IF h = j THEN <<el>> \o rest ELSE rest]

\* one iteration of toMoves.forEach(function (toMove, i) {...})
MoveStep ==
    /\ pc = "moving"
    /\ idx < Len(toMoves)
    /\ LET toMove == toMoves[idx + 1]
           closest == ClosestSection(toMove, parent, kind, tpl)
           index == IndexOf(sections, closest)
       IN  IF index # -1
           THEN /\ sectionIndex' =
                      [m \in DOMAIN sectionIndex \cup {toMove} |->
                          IF m = toMove THEN ToDecimal(index) ELSE sectionIndex[m]]
                /\ parent' = [parent EXCEPT ![toMove] = dataDivs[index + 1]]
                /\ paneKids' = Prepend(paneKids, index + 1, toMove)
                /\ moveCount' = [moveCount EXCEPT ![toMove] = @ + 1]
                /\ UNCHANGED ignored
           ELSE /\ ignored' = ignored \cup {idx}
                /\ UNCHANGED <<sectionIndex, parent, paneKids, moveCount>>
    /\ idx' = idx + 1
    /\ pc' = IF idx + 1 = Len(toMoves) THEN "moved" ELSE "moving"
    /\ UNCHANGED <<runVars, paneVars, job, options, failedAt, tpl, transformCalls,
                   transformState, inContent, scriptInHead, serialized, container,
                   kind, srcParent, styled, sections, dataDivs, toMoves>>

\* maxwell.transferNodeContent(document, template, selector): the source
\* document may or may not hold a node matching the selector
TransferNodeContent(selector, from, to) ==
    /\ pc = from
    /\ \E sourceHasNode \in BOOLEAN :
          IF sourceHasNode /\ tpl[selector]
          THEN /\ pc' = to
               /\ UNCHANGED <<runVars, failedAt>>
          ELSE Fail(selector)
    /\ UNCHANGED <<domVars, paneVars, job, options, tpl, transformCalls,
                   transformState, inContent, scriptInHead, serialized>>

TransferH1 == TransferNodeContent("h1", "moved", "h1done")
TransferTitle == TransferNodeContent("title", "h1done", "transforms")

\* maxwell.asyncForEach(array, callback) calls callback for element k once the
\* promises of all earlier elements have been fulfilled
AsyncForEachMayCall(status, k, fulfilled) ==
    /\ k \in 1..Len(status)
    /\ status[k] = "pending"
    /\ \A h \in 1..(k - 1) : status[h] = fulfilled

\* the promise of maxwell.asyncForEach is fulfilled
AsyncForEachResolved(status, fulfilled) ==
    \A k \in 1..Len(status) : status[k] = fulfilled

\* the promise of maxwell.asyncForEach is rejected
AsyncForEachRejected(status, rejected) ==
    \E k \in 1..Len(status) : status[k] = rejected

TransformArgs_Template == <<TemplateDocument, container>>

\* transform(document, container)
TransformArgs == <<SourceDocument, container>>

\* const file = require(rec.file); const transform = file[rec.func];
\* await transform(document, container)   -- up to the call
TransformStart ==
    /\ pc = "transforms"
    /\ \E j \in 1..Len(transformState) :
          /\ AsyncForEachMayCall(transformState, j, "done")
          /\ \/ /\ transformCalls' = Append(transformCalls, TransformArgs)
                /\ transformState' = [transformState EXCEPT ![j] = "running"]
                /\ UNCHANGED <<runVars, pc, failedAt>>
             \/ /\ transformState' = [transformState EXCEPT ![j] = "threw"]
                /\ Fail("transform")
                /\ UNCHANGED transformCalls
    /\ UNCHANGED <<domVars, paneVars, job, options, tpl, inContent, scriptInHead,
                   serialized>>

\* the promise returned by a transform settles
TransformSettle ==
    /\ pc # "failed"
    /\ \E j \in 1..Len(transformState) :
          /\ transformState[j] = "running"
          /\ \/ /\ transformState' = [transformState EXCEPT ![j] = "done"]
                /\ UNCHANGED <<runVars, pc, failedAt>>
             \/ /\ transformState' = [transformState EXCEPT ![j] = "threw"]
                /\ Fail("transform")
    /\ UNCHANGED <<domVars, paneVars, job, options, tpl, transformCalls, inContent,
                   scriptInHead, serialized>>

TransformsAwaited_Missing == TRUE

\* await maxwell.asyncForEach(options.transforms || [], ...) has returned
TransformsAwaited == AsyncForEachResolved(transformState, "done")

\* const target = template.querySelector(".mxcw-content");
\* target.appendChild(container);
AppendContainer ==
    /\ pc = "transforms"
    /\ TransformsAwaited
    /\ IF tpl.content
       THEN /\ inContent' = TRUE
            /\ pc' = "appended"
            /\ UNCHANGED <<runVars, failedAt>>
       ELSE /\ Fail("content")
            /\ UNCHANGED inContent
    /\ UNCHANGED <<domVars, paneVars, job, options, tpl, transformCalls,
                   transformState, scriptInHead, serialized>>

IntegratePaneHandlers_NoHeadCheck ==
    /\ pc = "appended"
    /\ IF options.paneHandlers
       THEN \/ /\ Fail("paneHandlers")
               /\ UNCHANGED scriptInHead
            \/ /\ scriptInHead' = tpl.head
               /\ pc' = "integrated"
               /\ UNCHANGED <<runVars, failedAt>>
       ELSE /\ pc' = "integrated"
            /\ UNCHANGED <<runVars, failedAt, scriptInHead>>
    /\ UNCHANGED <<domVars, paneVars, job, options, tpl, transformCalls,
                   transformState, inContent, serialized>>

\* if (paneHandlers) { ... head.appendChild(scriptNode); }
IntegratePaneHandlers ==
    /\ pc = "appended"
    /\ IF options.paneHandlers
       THEN \/ /\ Fail("paneHandlers")      \* a side-data file does not parse
               /\ UNCHANGED scriptInHead
            \/ IF tpl.head
               THEN /\ scriptInHead' = TRUE
                    /\ pc' = "integrated"
                    /\ UNCHANGED <<runVars, failedAt>>
               ELSE /\ Fail("head")
                    /\ UNCHANGED scriptInHead
       ELSE /\ pc' = "integrated"
            /\ UNCHANGED <<runVars, failedAt, scriptInHead>>
    /\ UNCHANGED <<domVars, paneVars, job, options, tpl, transformCalls,
                   transformState, inContent, serialized>>

\* maxwell.writeFile(outfile, "<!DOCTYPE html>" + template.documentElement.outerHTML)
WriteFile ==
    /\ pc = "integrated"
    /\ \/ /\ outputs' = outputs \cup {job}
          /\ serialized' = TemplateDocument
          /\ jobStatus' = [jobStatus EXCEPT ![job] = "written"]
          /\ pc' = "written"
          /\ UNCHANGED <<numJobs, numCopyJobs, attempts, copied, runStatus, failedAt>>
       \/ /\ Fail("writeFile")
          /\ UNCHANGED serialized
    /\ UNCHANGED <<domVars, paneVars, job, options, tpl, transformCalls,
                   transformState, inContent, scriptInHead>>

(******************************* reknit *********************************)
\* asyncForEach(config.reknitJobs, rec => maxwell.reknitFile(...)): the call
\* of reknitFile for the next job
JobStart ==
    /\ runStatus = "running"
    /\ \E k \in 1..numJobs :
          /\ AsyncForEachMayCall(jobStatus, k, "written")
          /\ job' = k
          /\ jobStatus' = [jobStatus EXCEPT ![k] = "running"]
          /\ attempts' = [attempts EXCEPT ![k] = @ + 1]
    /\ \E o \in OptionSets :
          /\ options' = o
          /\ transformState' = [j \in 1..o.transforms |-> "pending"]
    /\ FreshJob
    /\ UNCHANGED <<numJobs, numCopyJobs, outputs, copied, runStatus, serialized,
                   paneVars>>

ReknitJobsAwaited_Swallowing ==
    \A k \in 1..Len(jobStatus) : jobStatus[k] \in {"written", "failed"}

\* await maxwell.asyncForEach(config.reknitJobs, ...) has returned
ReknitJobsAwaited == AsyncForEachResolved(jobStatus, "written")

\* one iteration of config.copyJobs.forEach(dep => copyDep(...))
CopyDep ==
    /\ runStatus \in {"running", "copying"}
    /\ ReknitJobsAwaited
    /\ copied < numCopyJobs
    /\ \/ /\ copied' = copied + 1
          /\ runStatus' = "copying"
       \/ /\ runStatus' = "rejected"    \* copyDep throws
          /\ UNCHANGED copied
    /\ UNCHANGED <<numJobs, numCopyJobs, jobStatus, attempts, outputs, domVars,
                   fileVars, paneVars>>

\* reknit() returns: its promise is fulfilled
ReknitResolves ==
    /\ runStatus \in {"running", "copying"}
    /\ ReknitJobsAwaited
    /\ copied = numCopyJobs
    /\ runStatus' = "resolved"
    /\ UNCHANGED <<numJobs, numCopyJobs, jobStatus, attempts, outputs, copied,
                   domVars, fileVars, paneVars>>

\* the await in reknit rethrows the rejection of a job
ReknitRejects ==
    /\ runStatus = "running"
    /\ AsyncForEachRejected(jobStatus, "failed")
    /\ runStatus' = "rejected"
    /\ UNCHANGED <<numJobs, numCopyJobs, jobStatus, attempts, outputs, copied,
                   domVars, fileVars, paneVars>>

\* const config = maxwell.loadJSON5File("%maxwell/config.json5")
InitRun ==
    /\ numJobs \in 0..MaxJobs
    /\ numCopyJobs \in 0..MaxCopyJobs
    /\ jobStatus = [k \in 1..numJobs |-> "pending"]
    /\ attempts = [k \in 1..numJobs |-> 0]
    /\ outputs = {}
    /\ copied = 0
    /\ runStatus = "running"
    /\ job = 0
    /\ options = NoOptions
    /\ pc = "idle"
    /\ InitJobLocal
    /\ InitPaneIdle

NextRun ==
    \/ JobStart
    \/ ParseDocument(RunNodes)
    \/ ParseDocumentThrows
    \/ HideLeafletWidgets
    \/ ParseTemplate(RunTemplates)
    \/ ParseTemplateThrows
    \/ MovePlotlyWidgetsBegin
    \/ MoveStep
    \/ TransferH1
    \/ TransferTitle
    \/ TransformStart
    \/ TransformSettle
    \/ AppendContainer
    \/ IntegratePaneHandlers
    \/ WriteFile
    \/ CopyDep
    \/ ReknitResolves
    \/ ReknitRejects

SpecRun == InitRun /\ [][NextRun]_vars

(************************ integratePaneHandler ***************************)
CensorKeys_Keeping(obj, keys) ==
    IF ~obj.defined THEN EmptyObject
    ELSE [k \in DOMAIN obj.fields \cap keys |-> obj.fields[k]]

\* fluid.censorKeys(toCensor, keys): a copy without the keys; {} for undefined
CensorKeys(obj, keys) ==
    IF ~obj.defined THEN EmptyObject
    ELSE [k \in DOMAIN obj.fields \ keys |-> obj.fields[k]]

\* {...a, ...b}
Spread(a, b) ==
    [k \in DOMAIN a \cup DOMAIN b |-> IF k \in DOMAIN b THEN b[k] ELSE a[k]]

\* maxwell.integratePaneHandler(paneHandler, key); plotData is the content of
\* <key>-plotData.json, undefined when the file does not exist
IntegratePaneHandler ==
    /\ pc = "pane"
    /\ LET toMerge == CensorKeys(plotData, {"palette", "taxa"})
       IN  integrated' = Spread(paneHandler, toMerge)
    /\ paneLog' = ~plotData.defined
    /\ pc' = "paneDone"
    /\ UNCHANGED <<runVars, domVars, job, options, failedAt, tpl, transformCalls,
                   transformState, inContent, scriptInHead, serialized,
                   paneHandler, plotData>>

InitPane ==
    /\ numJobs = 0
    /\ numCopyJobs = 0
    /\ jobStatus = << >>
    /\ attempts = << >>
    /\ outputs = {}
    /\ copied = 0
    /\ runStatus = "running"
    /\ job = 0
    /\ options = [transforms |-> 0, paneHandlers |-> TRUE]
    /\ pc = "pane"
    /\ InitJobLocal
    /\ paneHandler \in Objects
    /\ plotData \in {Undefined} \cup { Defined(o) : o \in Objects }
    /\ integrated = EmptyObject
    /\ paneLog = FALSE

NextPane == IntegratePaneHandler

SpecPane == InitPane /\ [][NextPane]_vars

(************************ one call of reknitFile *************************)
InitJob ==
    /\ numJobs = 1
    /\ numCopyJobs = 0
    /\ jobStatus = <<"running">>
    /\ attempts = <<1>>
    /\ outputs = {}
    /\ copied = 0
    /\ runStatus = "running"
    /\ job = 1
    /\ options \in OptionSets
    /\ pc = "start"
    /\ failedAt = "none"
    /\ container = Null
    /\ kind = << >>
    /\ srcParent = << >>
    /\ parent = << >>
    /\ styled = {}
    /\ sectionIndex = << >>
    /\ sections = << >>
    /\ tpl = NoTemplate
    /\ dataDivs = << >>
    /\ paneKids = << >>
    /\ toMoves = << >>
    /\ idx = 0
    /\ ignored = {}
    /\ moveCount = << >>
    /\ transformCalls = << >>
    /\ transformState = [j \in 1..options.transforms |-> "pending"]
    /\ inContent = FALSE
    /\ scriptInHead = FALSE
    /\ serialized = NoDocument
    /\ InitPaneIdle

NextJob ==
    \/ ParseDocument(JobNodes)
    \/ ParseDocumentThrows
    \/ HideLeafletWidgets
    \/ ParseTemplate(AllTemplates)
    \/ ParseTemplateThrows
    \/ MovePlotlyWidgetsBegin
    \/ MoveStep
    \/ TransferH1
    \/ TransferTitle
    \/ TransformStart
    \/ TransformSettle
    \/ AppendContainer
    \/ IntegratePaneHandlers
    \/ WriteFile

SpecJob == InitJob /\ [][NextJob]_vars

(******************* one file, up to the end of movePlotlyWidgets ********)
InitFile ==
    /\ numJobs = 1
    /\ numCopyJobs = 0
    /\ jobStatus = <<"running">>
    /\ attempts = <<1>>
    /\ outputs = {}
    /\ copied = 0
    /\ runStatus = "running"
    /\ job = 1
    /\ options = NoOptions
    /\ pc = "start"
    /\ InitJobLocal
    /\ InitPaneIdle

NextFile ==
    \/ ParseDocument(MaxNodes)
    \/ HideLeafletWidgets
    \/ ParseTemplate(FileTemplates)
    \/ MovePlotlyWidgetsBegin
    \/ MoveStep

SpecFile == InitFile /\ [][NextFile]_vars

(******************* statements about movePlotlyWidgets ******************)
Elements == 1..Len(kind)
Range(s) == { s[j] : j \in 1..Len(s) }

\* the nearest enclosing .section.level2 an element had in the source document
SourceSection(m) == ClosestSection(m, srcParent, kind, NoTemplate)

\* the sections of the source that hold a leaflet widget
HoldingSections ==
    { SourceSection(w) : w \in { m \in Elements : IsLeaflet(kind[m]) } } \ {Null}

\* the elements of a set of document positions, in document order
RECURSIVE Ascending(_)
Ascending(S) ==
    IF S = {} THEN << >>
    ELSE LET least == CHOOSE x \in S : \A y \in S : x <= y
         IN  <<least>> \o Ascending(S \ {least})

\* the elements movePlotlyWidgets is to relocate
ToMoveElements ==
    { m \in Elements : IsPlotly(kind[m]) }
    \cup { IF ClosestFigure(m, srcParent, kind) # Null
           THEN ClosestFigure(m, srcParent, kind) ELSE m :
           m \in { d \in Elements : IsDataPane(kind[d]) } }

InSourceContainer(m) == Container \in AncestorsOrSelf(m, parent)
PanesCreated == pc \in {"moving", "moved"}
MoveFinished == pc = "moved"

\* C1: one widget pane per section holding a leaflet widget, the Nth pane
\* belonging to the Nth such section in document order.
C1_OnePanePerSection ==
    PanesCreated =>
        /\ Len(dataDivs) = Cardinality(HoldingSections)
        /\ sections = Ascending(HoldingSections)
        /\ \A j \in 1..Len(dataDivs) : dataDivs[j] = Pane(j - 1)

\* C2: every to-move element whose source section is recorded at index i ends
\* as a child of pane i, outside the source container, tagged with "i".
C2_MovedToPaneOfSection ==
    MoveFinished =>
        \A m \in ToMoveElements :
            LET i == IndexOf(sections, SourceSection(m))
            IN  (SourceSection(m) # Null /\ i # -1) =>
                    /\ parent[m] = Pane(i)
                    /\ ~InSourceContainer(m)
                    /\ m \in DOMAIN sectionIndex
                    /\ sectionIndex[m] = ToDecimal(i)

\* C3: a to-move element with no enclosing section, or whose section is not
\* recorded, is skipped: not re-parented, not tagged, logged, job not failed.
C3_SectionlessSkipped ==
    MoveFinished =>
        \A m \in ToMoveElements :
            (SourceSection(m) = Null \/ SourceSection(m) \notin Range(sections)) =>
                /\ parent[m] = srcParent[m]
                /\ moveCount[m] = 0
                /\ m \notin DOMAIN sectionIndex
                /\ \E j \in ignored : toMoves[j + 1] = m
                /\ failedAt = "none"

\* C10: no element is re-parented more than once, and a relocated element
\* sits in the pane of its source section, tagged with that section's index.
C10_MovedAtMostOnce ==
    \A m \in Elements :
        /\ moveCount[m] <= 1
        /\ (MoveFinished /\ moveCount[m] >= 1) =>
              LET i == IndexOf(sections, SourceSection(m))
              IN  /\ SourceSection(m) # Null
                  /\ i # -1
                  /\ parent[m] = Pane(i)
                  /\ sectionIndex[m] = ToDecimal(i)

(************************ statements about reknitFile ********************)
PastTemplateParse ==
    /\ pc \notin {"idle", "start", "parsed", "hidden", "tplParsed", "pane", "paneDone"}
    /\ failedAt \notin {"parseDocument", "hideLeafletWidgets", "parseTemplate"}

\* C4: with a template lacking .mxcw-data, reknitFile fails in
\* movePlotlyWidgets before any pane is created, any element is re-parented
\* or tagged, and any output is written.
C4_NoDataPaneFailsFirst ==
    (PastTemplateParse /\ ~tpl.data) =>
        /\ pc = "failed"
        /\ failedAt = "movePlotlyWidgets"
        /\ jobStatus[job] = "failed"
        /\ job \notin outputs
        /\ serialized = NoDocument
        /\ dataDivs = << >>
        /\ paneKids = << >>
        /\ parent = srcParent
        /\ sectionIndex = << >>
        /\ \A m \in Elements : moveCount[m] = 0

C4_Witness ==
    /\ pc = "failed"
    /\ failedAt = "movePlotlyWidgets"
    /\ ~tpl.data
    /\ Len(sections) > 0
    /\ \E m \in ToMoveElements : IndexOf(sections, SourceSection(m)) # -1

\* C5 (as stated): whatever the job's options, no output is written when the
\* template lacks .mxcw-data, .mxcw-content, head, h1 or title.
C5_AnyMissingAnchorFails ==
    (pc = "written" \/ job \in outputs) =>
        tpl.data /\ tpl.content /\ tpl.head /\ tpl.h1 /\ tpl.title

\* C5 (amended): no output is written when the template lacks .mxcw-data,
\* .mxcw-content, h1 or title, or lacks head while the job has paneHandlers.
C5_MissingAnchorFails ==
    (pc = "written" \/ job \in outputs) =>
        /\ tpl.data /\ tpl.content /\ tpl.h1 /\ tpl.title
        /\ (options.paneHandlers => tpl.head /\ scriptInHead)

C5_Witness ==
    /\ pc = "failed"
    /\ failedAt = "head"
    /\ options.paneHandlers
    /\ ~tpl.head
    /\ tpl.data /\ tpl.content /\ tpl.h1 /\ tpl.title
    /\ job \notin outputs

\* C6 (as stated): every transform is invoked with the template document, the
\* one serialized as output, and the source .main-container element.
C6_TransformGetsTemplate ==
    \A j \in 1..Len(transformCalls) :
        /\ transformCalls[j] = <<TemplateDocument, Container>>
        /\ (pc = "written" => transformCalls[j][1] = serialized)

\* C6 (amended): every listed transform is invoked, after the widgets are
\* relocated and h1/title transferred and before the container is appended to
\* .mxcw-content, with the source document (not the serialized one) and the
\* source .main-container element.
C6_TransformGetsSource ==
    /\ \A j \in 1..Len(transformCalls) :
          /\ transformCalls[j] = <<SourceDocument, Container>>
          /\ (pc = "written" => transformCalls[j][1] # serialized)
    /\ (pc = "written" => Len(transformCalls) = options.transforms)
    /\ (\E j \in 1..Len(transformState) : transformState[j] = "running") =>
          /\ pc = "transforms"
          /\ idx = Len(toMoves)
          /\ Len(dataDivs) = Len(sections)
          /\ ~inContent

C6_Witness ==
    /\ pc = "written"
    /\ options.transforms = MaxTransforms
    /\ Len(transformCalls) = MaxTransforms
    /\ serialized = TemplateDocument

(************************** statements about reknit **********************)
Running(status) == { k \in 1..Len(status) : status[k] = "running" }

\* C7: jobs run one at a time in the order of config.reknitJobs, transforms
\* one at a time in the order listed, the output is written only after the
\* last transform completed, and copy jobs start after every reknit job.
C7_StrictlySequential ==
    /\ Cardinality(Running(jobStatus)) <= 1
    /\ \A k \in 1..numJobs :
          jobStatus[k] # "pending" => \A h \in 1..(k - 1) : jobStatus[h] = "written"
    /\ \A k \in 1..numJobs : (k \in outputs) = (jobStatus[k] = "written")
    /\ Cardinality(Running(transformState)) <= 1
    /\ \A j \in 1..Len(transformState) :
          transformState[j] # "pending" =>
              \A h \in 1..(j - 1) : transformState[h] = "done"
    /\ Running(transformState) # {} => Running(jobStatus) = {job}
    /\ pc \in {"appended", "integrated", "written"} =>
          \A j \in 1..Len(transformState) : transformState[j] = "done"
    /\ (copied > 0 \/ runStatus \in {"copying", "resolved"}) =>
          \A k \in 1..numJobs : jobStatus[k] = "written"

C7_Witness ==
    /\ numJobs = 2
    /\ jobStatus = <<"written", "running">>
    /\ transformState = <<"done", "running">>

\* C8: once a job has failed, neither it nor any later job has an output, no
\* later job is started, no copy job is executed, the outputs of the earlier
\* jobs are there, and no job is called twice.
C8_NoFailureIsolation ==
    /\ \A k \in 1..numJobs :
          jobStatus[k] = "failed" =>
              /\ \A h \in k..numJobs : h \notin outputs
              /\ \A h \in (k + 1)..numJobs : jobStatus[h] = "pending" /\ attempts[h] = 0
              /\ \A h \in 1..(k - 1) : h \in outputs
              /\ copied = 0
              /\ runStatus \in {"running", "rejected"}
    /\ \A k \in 1..numJobs : attempts[k] <= 1

C8_Witness ==
    /\ numJobs = 2
    /\ numCopyJobs > 0
    /\ jobStatus = <<"failed", "pending">>
    /\ runStatus = "rejected"

(********************* statements about integratePaneHandler *************)
\* C9: the result holds the side-data fields other than palette and taxa,
\* below them the handler's own fields, and nothing else; without a side-data
\* file the call succeeds with exactly the handler's fields.
C9_PaneHandlerMerge ==
    pc = "paneDone" =>
        /\ \A k \in Keys :
              IF plotData.defined /\ k \in DOMAIN plotData.fields
                 /\ k \notin {"palette", "taxa"}
              THEN k \in DOMAIN integrated /\ integrated[k] = plotData.fields[k]
              ELSE IF k \in DOMAIN paneHandler
              THEN k \in DOMAIN integrated /\ integrated[k] = paneHandler[k]
              ELSE k \notin DOMAIN integrated
        /\ DOMAIN integrated \subseteq Keys
        /\ (~plotData.defined => integrated = paneHandler /\ paneLog)
        /\ failedAt = "none"

C9_Witness ==
    /\ pc = "paneDone"
    /\ plotData.defined
    /\ {"palette", "taxa", "mapTitle"} \subseteq DOMAIN plotData.fields
    /\ {"palette", "mapTitle"} \subseteq DOMAIN paneHandler
    /\ plotData.fields["palette"] # paneHandler["palette"]
    /\ plotData.fields["mapTitle"] # paneHandler["mapTitle"]
    /\ "taxa" \notin DOMAIN integrated

====
